---- MODULE Spec2Model ----
(***************************************************************************)
(* Assignment & Routing Coordinator of the dashboard (RoutesPage.tsx).     *)
(* State: the React state and refs of the page, the drag gesture in        *)
(* progress, the persistence-relay calls and routing requests in flight.   *)
(* One action per handler / continuation of the page.                      *)
(***************************************************************************)
EXTENDS Integers, Sequences, FiniteSets, Bags, TLC

\* ------------------------------------------------------------------ bounds
NumTasks == 2        \* rows the task store can return (ids 1..NumTasks)
MaxSeq == 2          \* longest driver sequence explored
MaxPending == 2      \* relay calls simultaneously in flight
MaxReqs == 2         \* routing requests simultaneously in flight

\* --------------------------------------------------------------- constants
Undefined == 0       \* JS `undefined`, what `const [m] = arr.splice(i, 1)` yields past the end
None == <<>>         \* absent optional value
Some(x) == <<x>>

TaskIds == 1..NumTasks

\* const [drivers] = useState<Driver[]>([...])
drivers ==
  << [id |-> "rakesh", name |-> "Rakesh"],
     [id |-> "jagannath", name |-> "Jagannath"] >>

DriverIds == {drivers[i].id : i \in 1..Len(drivers)}

\* values the sheet's "Assigned Driver" column takes in the model
DriverFields == {"", "RAKESH", "Jagannath"}

\* String.prototype.toLowerCase on the strings of the model
toLowerCase(s) ==
  CASE s = "Rakesh" -> "rakesh"
    [] s = "RAKESH" -> "rakesh"
    [] s = "Jagannath" -> "jagannath"
    [] s = "Suresh" -> "suresh"
    [] s = "Laundry" -> "laundry"
    [] s = "Depot" -> "depot"
    [] OTHER -> s

\* drivers.find((d) => d.id === driverId)?.name ?? ''
DriverName(driverId) ==
  IF \E i \in 1..Len(drivers) : drivers[i].id = driverId
  THEN drivers[CHOOSE i \in 1..Len(drivers) : drivers[i].id = driverId].name
  ELSE ""

\* DriversPage: useState<Driver[]>([{ id: "d1", name: "Pradhan", ...}, { id: "d2", name: "Rakesh", ...}])
driverPageRoster ==
  << [id |-> "d1", name |-> "Pradhan"], [id |-> "d2", name |-> "Rakesh"] >>

DriverPageIds == {driverPageRoster[i].id : i \in 1..Len(driverPageRoster)}

\* drivers.find((d) => d.id === dst)?.name
DriverPageName(dId) ==
  driverPageRoster[CHOOSE i \in 1..Len(driverPageRoster) : driverPageRoster[i].id = dId].name

VARIABLES
  sheet,         \* rows the remote task store holds (external)
  points,        \* features of POINTS (../data/zones), [name, coordinates]
  loadPc,        \* load effect: "pending" | "done" | "failed"
  tasks,         \* useState<Task[]>
  cancelled,     \* the load effect's `cancelled` flag (view left)
  mapRef,        \* mapRef.current !== null
  assign,        \* useState<Record<string, string[]>>: driverId -> ordered ids
  drag,          \* gesture in progress: None or Some([droppableId, index, draggableId])
  interactions,  \* map dragging / zoom handlers enabled
  pending,       \* bag of relay calls (fetch POST) in flight
  originRef,     \* originRef.current, [lng, lat]
  routeLayer,    \* routeLayerRef.current: None or Some(drawn route)
  mapLayers,     \* bag of the route layers added to the map and not removed
  popup,         \* the popup open on the map: [owner, content], content "" when closed
  reqs,          \* routing requests in flight, in the order they were started
  resp,          \* normalizeToGeoJSON: the provider body handed to it
  norm,          \* normalizeToGeoJSON: what it returned, None before the call
  mapQuery,      \* useState(''): the text of the 'Show on Map' field, in pieces
  parsed,        \* parseCoords: what it returned, None before the call
  page,          \* the page the router has mounted: "routes" | "drivers"
  dpLoad,        \* DriversPage load effect: "pending" | "done" | "failed"
  loadError,     \* DriversPage useState<string | null>: the load-error line
  allTasks,      \* DriversPage useState<Task[]>
  unassigned,    \* DriversPage useState<Task[]>: the Unassigned list
  dpDrivers      \* DriversPage drivers state: driver id -> taskIds

extVars == <<sheet, points>>
catVars == <<loadPc, tasks>>
viewVars == <<cancelled, mapRef>>
dndVars == <<drag, interactions>>
routeVars == <<routeLayer, mapLayers, popup>>
normVars == <<resp, norm, mapQuery, parsed>>
dpVars == <<dpLoad, loadError, allTasks, unassigned, dpDrivers>>
rpVars == <<catVars, viewVars, assign, dndVars, pending, originRef, routeVars, reqs, normVars>>

vars == <<page, extVars, dpVars, rpVars>>

\* ----------------------------------------------------------- array helpers
RECURSIVE Filter(_, _)
\* arr.filter((x) => x !== v)
Filter(arr, v) ==
  IF arr = <<>> THEN <<>>
  ELSE IF Head(arr) = v THEN Filter(Tail(arr), v)
       ELSE <<Head(arr)>> \o Filter(Tail(arr), v)

\* arr.filter((_id, i) => i !== index), index 0-based
FilterIndex(arr, index) ==
  IF index < Len(arr)
  THEN SubSeq(arr, 1, index) \o SubSeq(arr, index + 2, Len(arr))
  ELSE arr

\* the array left by arr.splice(index, 1)
SpliceOut(arr, index) ==
  IF index < Len(arr)
  THEN SubSeq(arr, 1, index) \o SubSeq(arr, index + 2, Len(arr))
  ELSE arr

\* const [m] = arr.splice(index, 1)
SpliceTaken(arr, index) ==
  IF index < Len(arr) THEN arr[index + 1] ELSE Undefined

\* arr.splice(index, 0, item): the start index is clamped to the length
SpliceIn(arr, index, item) ==
  LET at == IF index > Len(arr) THEN Len(arr) ELSE index
  IN SubSeq(arr, 1, at) \o <<item>> \o SubSeq(arr, at + 1, Len(arr))


\* ------------------------------------------------------------ task catalog
\* coordinates the sheet holds for task i (millidegrees)
LatOf(i) == 12900 + i
LngOf(i) == 77600 + i

\* the coordinate pairs <<lat, lng>> a row of task i may carry
CoordsOf(i, vary) ==
  IF vary
  THEN {<<Some(LatOf(i)), Some(LngOf(i))>>, <<None, Some(LngOf(i))>>,
        <<Some(LatOf(i)), None>>}
  ELSE {<<Some(LatOf(i)), Some(LngOf(i))>>}

\* the rows the task store may hold for task i
RowsOf(i, fields, vary) ==
  {[id |-> i, assignedDriver |-> a, lat |-> c[1], lng |-> c[2]] :
     a \in fields, c \in CoordsOf(i, vary)}

\* sheets: rows for the tasks 1..n in id order, ids pairwise distinct
\* (the store is keyed by id)
SheetsOf(fields, vary) ==
  UNION {{sh \in [1..n -> UNION {RowsOf(i, fields, vary) : i \in 1..n}] :
            \A i \in 1..n : sh[i].id = i} : n \in 0..NumTasks}

\* isFinite(x) on a coordinate of a row
isFinite(x) == x # None

\* tasksById: for (const t of tasks) m[String(t.id)] = t  (the last row wins)
HasTask(ts, tid) == \E i \in 1..Len(ts) : ts[i].id = tid
tasksById(ts, tid) ==
  ts[CHOOSE i \in 1..Len(ts) :
       /\ ts[i].id = tid
       /\ \A j \in 1..Len(ts) : ts[j].id = tid => j <= i]

\* drivers.find((d) => d.name.toLowerCase() === String(t.assignedDriver || '').toLowerCase())
SeedDriver(t) ==
  LET hits == {i \in 1..Len(drivers) :
                 toLowerCase(drivers[i].name) = toLowerCase(t.assignedDriver)}
  IN IF hits = {} THEN None
     ELSE Some(drivers[CHOOSE i \in hits : \A j \in hits : i <= j].id)

RECURSIVE SeedAssign(_, _)
\* for (const t of rows) { ...; if (drv) byDrv[drv.id].push(String(t.id)) }
SeedAssign(rows, byDrv) ==
  IF rows = <<>> THEN byDrv
  ELSE LET drv == SeedDriver(Head(rows))
       IN SeedAssign(Tail(rows),
            IF drv = None THEN byDrv
            ELSE [byDrv EXCEPT ![drv[1]] = Append(@, Head(rows).id)])

EmptyAssign == [d \in DriverIds |-> <<>>]

\* ------------------------------------------------------------------ ledger
TasksList == <<"tasks">>                 \* droppableId="tasks"
drvKey(id) == <<"drv", id>>              \* `drv:${id}`
startsWithDrv(dropId) == dropId[1] = "drv"
DrvOf(dropId) == dropId[2]               \* dst.replace('drv:', '')

\* the ids some driver holds
assignedSet(a) == UNION {{a[d][i] : i \in 1..Len(a[d])} : d \in DriverIds}

\* visibleUnassigned with the filter 'All': catalog tasks no driver holds
RECURSIVE Unassigned(_, _)
Unassigned(ts, a) ==
  IF ts = <<>> THEN <<>>
  ELSE IF Head(ts).id \in assignedSet(a) THEN Unassigned(Tail(ts), a)
       ELSE <<Head(ts).id>> \o Unassigned(Tail(ts), a)

\* AssignFromTasks that inserts in front, whatever the destination index
AssignFromTasksFront(prev, driverId, index, draggableId) ==
  LET next == [d \in DriverIds |-> Filter(prev[d], draggableId)]
  IN [next EXCEPT ![driverId] = <<draggableId>> \o @]

\* Tasks -> driver: remove from all drivers first, then insert
AssignFromTasks(prev, driverId, index, draggableId) ==
  LET next == [d \in DriverIds |-> Filter(prev[d], draggableId)]
  IN [next EXCEPT ![driverId] = SpliceIn(@, index, draggableId)]

\* driver -> Tasks: drop the entry at source.index
AssignUnassign(prev, fromId, index) ==
  [prev EXCEPT ![fromId] = FilterIndex(@, index)]

\* AssignReorder with the removal forgotten: the moved entry is copied
AssignReorderCopy(prev, dId, from, to) ==
  [prev EXCEPT ![dId] = SpliceIn(@, to, SpliceTaken(prev[dId], from))]

\* AssignReorder that puts the entry back where it was taken
AssignReorderStay(prev, dId, from, to) ==
  [prev EXCEPT ![dId] = SpliceIn(SpliceOut(@, from), from, SpliceTaken(prev[dId], from))]

\* reorder within the same driver
AssignReorder(prev, dId, from, to) ==
  [prev EXCEPT ![dId] = SpliceIn(SpliceOut(@, from), to, SpliceTaken(prev[dId], from))]

\* AssignMove with the removal forgotten: insert without remove
AssignMoveKeep(prev, fromId, toId, from, to) ==
  [prev EXCEPT ![toId] = SpliceIn(@, to, SpliceTaken(prev[fromId], from))]

\* AssignMove that pushes the entry at the end of the destination
AssignMoveAppend(prev, fromId, toId, from, to) ==
  [prev EXCEPT ![fromId] = SpliceOut(@, from),
               ![toId] = Append(@, SpliceTaken(prev[fromId], from))]

\* move between drivers
AssignMove(prev, fromId, toId, from, to) ==
  [prev EXCEPT ![fromId] = SpliceOut(@, from),
               ![toId] = SpliceIn(@, to, SpliceTaken(prev[fromId], from))]

\* ------------------------------------------------------- persistence relay
Call(taskId, driverName, batch) == [id |-> taskId, assignedDriver |-> driverName, batch |-> batch]

\* saveAssignmentToSheet(taskId, driverName): the fetch is started, not awaited
Issue(bag, call) == bag (+) SetToBag({call})

\* IssueAll that saves only the first cleared task
IssueFirst(bag, toClear, batch) ==
  IF toClear = <<>> THEN bag ELSE Issue(bag, Call(Head(toClear), "", batch))

RECURSIVE IssueAll(_, _, _)
\* toClear.map((tid) => saveAssignmentToSheet(Number(tid), ''))
IssueAll(bag, toClear, batch) ==
  IF toClear = <<>> THEN bag
  ELSE IssueAll(Issue(bag, Call(Head(toClear), "", batch)), Tail(toClear), batch)

\* a relay whose failure takes the saved task back out of the ledger
SettledAssignRollback(a, c, ok) ==
  IF ok THEN a ELSE [d \in DOMAIN a |-> Filter(a[d], c.id)]

\* try { await fetch(...) } catch (err) { console.error(...) }: the ledger is
\* not touched, whether the fetch resolved or rejected
SettledAssign(a, c, ok) == a

Batches(bag) == {c.batch : c \in BagToSet(bag)}
FreshBatch(bag) == CHOOSE k \in 1..(MaxPending + 1) : k \notin Batches(bag)

\* ------------------------------------------------------------------- route
Popup(owner, content) == [owner |-> owner, content |-> content]
NoPopup == Popup(0, "")

\* clearEta(): remove the drawn route and close the popup
ClearedRoute == IF mapRef THEN None ELSE routeLayer

\* routeLayerRef.current.remove(): the layer the ref holds leaves the map
RemoveLayer(layers, ref) ==
  IF ref = None THEN layers ELSE layers (-) SetToBag({ref[1]})

ClearedLayers == IF mapRef THEN RemoveLayer(mapLayers, routeLayer) ELSE mapLayers
ClearedPopup == IF mapRef THEN NoPopup ELSE popup

\* --------------------------------------------------------- drag and drop
Droppables == {TasksList} \cup {drvKey(d) : d \in DriverIds}

\* the <Draggable>s rendered: unassigned tasks in the Tasks list, and in each
\* driver's list the entries tasksById resolves (`if (!t) return null`)
Draggables(ts, a) ==
  LET un == Unassigned(ts, a)
  IN {[droppableId |-> TasksList, index |-> i - 1, draggableId |-> un[i]] :
        i \in 1..Len(un)}
     \cup UNION {{[droppableId |-> drvKey(d), index |-> i - 1, draggableId |-> a[d][i]] :
                    i \in {k \in 1..Len(a[d]) : HasTask(ts, a[d][k])}} :
                 d \in DriverIds}

\* which branch of onDragEnd a drop takes
DropCase(src, dst) ==
  CASE src = TasksList /\ startsWithDrv(dst) -> "tasksToDrv"
    [] startsWithDrv(src) /\ dst = TasksList -> "drvToTasks"
    [] startsWithDrv(src) /\ startsWithDrv(dst) /\ src = dst -> "reorder"
    [] startsWithDrv(src) /\ startsWithDrv(dst) /\ src # dst -> "drvToDrv"
    [] OTHER -> "none"

\* the ledger setAssign leaves for a drop with a destination
DropAssign(prev, src, sIdx, dst, dIdx, draggableId) ==
  LET case == DropCase(src, dst)
  IN CASE case = "tasksToDrv" -> AssignFromTasks(prev, DrvOf(dst), dIdx, draggableId)
       [] case = "drvToTasks" -> AssignUnassign(prev, DrvOf(src), sIdx)
       [] case = "reorder" -> AssignReorder(prev, DrvOf(src), sIdx, dIdx)
       [] case = "drvToDrv" -> AssignMove(prev, DrvOf(src), DrvOf(dst), sIdx, dIdx)
       [] OTHER -> prev

\* the relay calls a drop with a destination issues
DropCalls(src, dst, draggableId) ==
  LET case == DropCase(src, dst)
  IN CASE case = "tasksToDrv" -> <<Call(draggableId, DriverName(DrvOf(dst)), 0)>>
       [] case = "drvToTasks" -> <<Call(draggableId, "", 0)>>
       [] case = "drvToDrv" -> <<Call(draggableId, DriverName(DrvOf(dst)), 0)>>
       [] OTHER -> <<>>

WithinBounds(a) == \A d \in DriverIds : Len(a[d]) <= MaxSeq

\* ---------------------------------------------------- route request builder
\* const FALLBACK_LAUNDRY_LATLNG: [number, number] = [12.935, 77.614] (millidegrees)
FALLBACK_LAUNDRY_LATLNG == <<12935, 77614>>

Laundry == [name |-> "Laundry", coordinates |-> <<77620, 12960>>]
Depot == [name |-> "Depot", coordinates |-> <<77500, 12800>>]

\* the POINTS collections of the model: with and without the home base
PointSets == {<<Depot>>, <<Laundry, Depot>>}

\* getLaundryLngLat(): the 'laundry' feature, else the fallback as [lng, lat]
getLaundryLngLat(pts) ==
  LET hits == {i \in 1..Len(pts) : toLowerCase(pts[i].name) = "laundry"}
  IN IF hits # {}
     THEN pts[CHOOSE i \in hits : \A j \in hits : i <= j].coordinates
     ELSE <<FALLBACK_LAUNDRY_LATLNG[2], FALLBACK_LAUNDRY_LATLNG[1]>>

RECURSIVE WaypointsLatLng(_, _)
\* Waypoints pushing [t.lat, t.lng]
WaypointsLatLng(ts, orderedTaskIds) ==
  IF orderedTaskIds = <<>> THEN <<>>
  ELSE LET tid == Head(orderedTaskIds)
           rest == WaypointsLatLng(ts, Tail(orderedTaskIds))
       IN IF ~HasTask(ts, tid) THEN rest
          ELSE LET t == tasksById(ts, tid)
               IN IF ~isFinite(t.lat) \/ ~isFinite(t.lng) THEN rest
                  ELSE <<(<<t.lat[1], t.lng[1]>>)>> \o rest

RECURSIVE Waypoints(_, _)
\* for (const tid of orderedTaskIds) { ...; waypoints.push([t.lng, t.lat]) }
Waypoints(ts, orderedTaskIds) ==
  IF orderedTaskIds = <<>> THEN <<>>
  ELSE LET tid == Head(orderedTaskIds)
           rest == Waypoints(ts, Tail(orderedTaskIds))
       IN IF ~HasTask(ts, tid) THEN rest
          ELSE LET t == tasksById(ts, tid)
               IN IF ~isFinite(t.lat) \/ ~isFinite(t.lng) THEN rest
                  ELSE <<(<<t.lng[1], t.lat[1]>>)>> \o rest

\* coordsForDriver(driverId): [start, ...waypoints, start]
coordsForDriver(origin, ts, a, driverId) ==
  <<origin>> \o Waypoints(ts, a[driverId]) \o <<origin>>

\* ----------------------------------------------------------- routing client
Summary(distance, duration) == [distance |-> distance, duration |-> duration]

RECURSIVE SumSegments(_, _)
\* segments.reduce((acc, s) => ({distance: acc.distance + (s?.distance ?? 0), ...}), {0, 0})
SumSegments(segments, acc) ==
  IF segments = <<>> THEN acc
  ELSE LET sg == Head(segments)
       IN SumSegments(Tail(segments),
            Summary(acc.distance + (IF sg.distance = None THEN 0 ELSE sg.distance[1]),
                    acc.duration + (IF sg.duration = None THEN 0 ELSE sg.duration[1])))

Feature(properties, geometry) ==
  [type |-> "Feature", properties |-> properties, geometry |-> geometry]
FeatureCollection(features) ==
  [type |-> "FeatureCollection", features |-> Some(features), routes |-> None]

\* resp.type === 'FeatureCollection' && Array.isArray(resp.features)
IsGeoJSONForm(r) == r.type = "FeatureCollection" /\ r.features # None

\* route?.geometry?.type && Array.isArray(route?.geometry?.coordinates)
IsJSONForm(r) ==
  /\ r.routes # None
  /\ r.routes[1] # <<>>
  /\ r.routes[1][1].geometry # None
  /\ r.routes[1][1].geometry[1].type # ""
  /\ r.routes[1][1].geometry[1].coordinates # None

\* props?.summary ?? props?.segments?.reduce(...)
GeoJSONSummary(r) ==
  LET features == r.features[1]
      props == IF features = <<>> THEN None ELSE features[1].properties
  IN IF props = None THEN None
     ELSE IF props[1].summary # None THEN props[1].summary
     ELSE IF props[1].segments # None
          THEN Some(SumSegments(props[1].segments[1], Summary(0, 0)))
          ELSE None

\* JSONSummary that drops the provider's summary
JSONSummaryDropped(r) == None

\* route.summary ?? null
JSONSummary(r) == r.routes[1][1].summary

\* normalizeToGeoJSON(resp): Some([geojson, summary]), or None when it throws
normalizeToGeoJSON(r) ==
  IF IsGeoJSONForm(r)
  THEN Some([geojson |-> r, summary |-> GeoJSONSummary(r)])
  ELSE IF IsJSONForm(r)
  THEN LET route == r.routes[1][1]
           feature == Feature(Some([summary |-> JSONSummary(r), segments |-> None]),
                              route.geometry[1])
       IN Some([geojson |-> FeatureCollection(<<feature>>), summary |-> JSONSummary(r)])
  ELSE None

\* provider bodies -------------------------------------------------------
LineString == [type |-> "LineString", coordinates |-> Some(<<1, 2>>)]
Geometries == {LineString,
               [type |-> "", coordinates |-> Some(<<1, 2>>)],
               [type |-> "LineString", coordinates |-> None]}
Summaries == {None, Some(Summary(5000, 600))}
SegmentLists ==
  {None, Some(<<>>),
   Some(<<[distance |-> Some(100), duration |-> Some(10)],
          [distance |-> Some(250), duration |-> None]>>)}
Properties ==
  {None} \cup {Some([summary |-> sm, segments |-> sg]) : sm \in Summaries, sg \in SegmentLists}
Features == {Feature(pr, LineString) : pr \in Properties}
RouteItems ==
  {[geometry |-> g, summary |-> sm, segments |-> sg] :
     g \in {None} \cup {Some(x) : x \in Geometries}, sm \in Summaries, sg \in SegmentLists}

\* every body of the model: any type tag, features and routes absent, empty or one item
Bodies ==
  {[type |-> ty, features |-> fs, routes |-> rs] :
     ty \in {"FeatureCollection", "other"},
     fs \in {None, Some(<<>>)} \cup {Some(<<f>>) : f \in Features},
     rs \in {None, Some(<<>>)} \cup {Some(<<r>>) : r \in RouteItems}}

\* what a fetch to the provider settles with
Response(tag, body) == [tag |-> tag, body |-> body]
OtherBody == [type |-> "other", features |-> None, routes |-> None]
GeoJSONBody ==
  FeatureCollection(<<Feature(Some([summary |-> Some(Summary(5000, 600)), segments |-> None]),
                              LineString)>>)
JSONBody ==
  [type |-> "other", features |-> None,
   routes |-> Some(<<[geometry |-> Some(LineString), summary |-> None, segments |-> None]>>)]

\* the provider's answers to one request: the fetch rejects, a non-success
\* status, a body res.json() cannot parse, or a parsed body
Responses ==
  {Response("netError", OtherBody), Response("http500", OtherBody),
   Response("badJson", OtherBody)}
  \cup {Response("json", b) : b \in {GeoJSONBody, JSONBody, OtherBody}}

\* `if (!res.ok) throw ...; return normalizeToGeoJSON(await res.json())` returns
Returns(r) == r.tag = "json" /\ normalizeToGeoJSON(r.body) # None

\* SingleLegNext without the catch block's second fetch
SingleLegNoFallback(stage, r) ==
  IF Returns(r) THEN "success" ELSE "failed"

\* fetchSingleLeg: what follows the response to the request of `stage`
SingleLegNext(stage, r) ==
  IF Returns(r) THEN "success"
  ELSE IF stage = "primary" THEN "fallback" ELSE "failed"

\* fetchMultiStopRoute: what follows the response to its one request
MultiStopNext(stage, r) ==
  IF Returns(r) THEN "success" ELSE "failed"

Request(id, kind, target, coords, stage) ==
  [id |-> id, kind |-> kind, target |-> target, coords |-> coords, stage |-> stage]

ReqIds == {reqs[i].id : i \in 1..Len(reqs)}
FreshReq == CHOOSE k \in 1..(MaxReqs + 1) : k \notin ReqIds \cup {popup.owner}

RemoveAt(q, i) == SubSeq(q, 1, i - 1) \o SubSeq(q, i + 1, Len(q))

\* the layer L.geoJSON(geojson) built by the call that issued request r
RouteOf(r, geojson) ==
  [id |-> r.id, kind |-> r.kind, target |-> r.target, coords |-> r.coords, geojson |-> geojson]

\* drawRoute without `if (!map) return`
DrawnRouteUnmounted(r, geojson) == Some(RouteOf(r, geojson))

\* drawRoute that keeps the route already drawn
DrawnRouteKeepFirst(r, geojson) ==
  IF mapRef /\ routeLayer = None THEN Some(RouteOf(r, geojson)) ELSE routeLayer

\* drawRoute(geojson)
DrawnRoute(r, geojson) ==
  IF mapRef THEN Some(RouteOf(r, geojson)) ELSE routeLayer

\* drawRoute that adds the new layer without removing the one drawn before
DrawnLayersKept(r, geojson) ==
  IF mapRef
  THEN mapLayers (+) SetToBag({DrawnRoute(r, geojson)[1]})
  ELSE mapLayers

\* drawRoute(geojson): the layers on the map after it
DrawnLayers(r, geojson) ==
  IF mapRef
  THEN RemoveLayer(mapLayers, routeLayer) (+) SetToBag({DrawnRoute(r, geojson)[1]})
  ELSE mapLayers

\* loading.setContent(content): seen only while that popup is still the open one
SetContent(id, content) ==
  IF popup.owner = id THEN Popup(id, content) ELSE popup

\* distKm != null && durMin != null
HasSummary(n) == n.summary # None

\* ----------------------------------------------------------------- actions
InitPage(sheets, pointSets) ==
  /\ sheet \in sheets
  /\ points \in pointSets
  /\ loadPc = "pending"
  /\ tasks = <<>>
  /\ cancelled = FALSE
  /\ mapRef = TRUE
  /\ assign = EmptyAssign
  /\ drag = None
  /\ interactions = TRUE
  /\ pending = EmptyBag
  /\ originRef = getLaundryLngLat(points)
  /\ routeLayer = None
  /\ mapLayers = EmptyBag
  /\ popup = NoPopup
  /\ reqs = <<>>
  /\ dpLoad = "pending"
  /\ loadError = None
  /\ allTasks = <<>>
  /\ unassigned = <<>>
  /\ dpDrivers = [d \in DriverPageIds |-> <<>>]

\* the router has mounted one of the two pages
Init ==
  /\ \/ page = "routes" /\ InitPage(SheetsOf(DriverFields, FALSE), {<<Laundry, Depot>>})
     \/ page = "drivers" /\ InitPage(SheetsOf({"", "RAKESH"}, TRUE), {<<Laundry, Depot>>})
  /\ resp = OtherBody
  /\ norm = None
  /\ mapQuery = <<>>
  /\ parsed = None

\* load effect, the fetch and res.json() succeeded
LoadOk(rowsIsArray) ==
  /\ page = "routes"
  /\ loadPc = "pending"
  /\ loadPc' = "done"
  /\ IF cancelled
     THEN UNCHANGED <<tasks, assign>>
     ELSE LET rows == IF rowsIsArray THEN sheet ELSE <<>>
          IN /\ tasks' = rows
             /\ assign' = SeedAssign(rows, EmptyAssign)
  /\ UNCHANGED <<page, extVars, dpVars, viewVars, dndVars, pending, originRef, routeVars, reqs,
                 normVars>>

\* what RoutesPage renders of a failed load: the catch block logs to the
\* console and empties the catalog, the page has no state or element for it
RoutesLoadErrorShown == FALSE

\* DriversPage: {loadError && <div ...>{loadError}</div>}
DriversLoadErrorShown == loadError # None

\* load effect, the fetch or res.json() threw
LoadFail ==
  /\ page = "routes"
  /\ loadPc = "pending"
  /\ loadPc' = "failed"
  /\ tasks' = IF cancelled THEN tasks ELSE <<>>
  /\ UNCHANGED <<page, extVars, dpVars, viewVars, assign, dndVars, pending, originRef, routeVars, reqs,
                 normVars>>

\* onDragStart: the library lifts one rendered draggable
OnDragStart(d) ==
  /\ page = "routes"
  /\ ~cancelled
  /\ drag = None
  /\ d \in Draggables(tasks, assign)
  /\ drag' = Some(d)
  /\ interactions' = IF mapRef THEN FALSE ELSE interactions
  /\ UNCHANGED <<page, extVars, dpVars, catVars, viewVars, assign, pending, originRef, routeVars, reqs,
                 normVars>>

\* OnDragEndCancelled that returns before the map's handlers are enabled
OnDragEndCancelledDisabled ==
  /\ page = "routes"
  /\ ~cancelled
  /\ drag # None
  /\ drag' = None
  /\ UNCHANGED <<page, extVars, dpVars, catVars, viewVars, assign, interactions, pending, originRef,
                 routeVars, reqs, normVars>>

\* OnDragEndCancelled that reaches clearEta() like the drops with a destination
OnDragEndCancelledClearing ==
  /\ page = "routes"
  /\ ~cancelled
  /\ drag # None
  /\ drag' = None
  /\ interactions' = IF mapRef THEN TRUE ELSE interactions
  /\ routeLayer' = ClearedRoute
  /\ mapLayers' = ClearedLayers
  /\ popup' = ClearedPopup
  /\ UNCHANGED <<page, extVars, dpVars, catVars, viewVars, assign, pending, originRef, reqs,
                 normVars>>

\* onDragEnd with no destination
OnDragEndCancelled ==
  /\ page = "routes"
  /\ ~cancelled
  /\ drag # None
  /\ drag' = None
  /\ interactions' = IF mapRef THEN TRUE ELSE interactions
  /\ UNCHANGED <<page, extVars, dpVars, catVars, viewVars, assign, pending, originRef, routeVars, reqs,
                 normVars>>

\* onDragEnd with a destination
OnDragEnd(dst, dIdx) ==
  /\ page = "routes"
  /\ ~cancelled
  /\ drag # None
  /\ LET src == drag[1].droppableId
         sIdx == drag[1].index
         id == drag[1].draggableId
         case == DropCase(src, dst)
         calls == DropCalls(src, dst, id)
         next == DropAssign(assign, src, sIdx, dst, dIdx, id)
     IN /\ WithinBounds(next)
        /\ BagCardinality(pending) + Len(calls) <= MaxPending
        /\ assign' = next
        /\ pending' = IF calls = <<>> THEN pending ELSE Issue(pending, calls[1])
        /\ routeLayer' = IF case = "none" THEN routeLayer ELSE ClearedRoute
        /\ mapLayers' = IF case = "none" THEN mapLayers ELSE ClearedLayers
        /\ popup' = IF case = "none" THEN popup ELSE ClearedPopup
  /\ drag' = None
  /\ interactions' = IF mapRef THEN TRUE ELSE interactions
  /\ UNCHANGED <<page, extVars, dpVars, catVars, viewVars, originRef, reqs, normVars>>

\* clearDriver(dId), up to its await
ClearDriver(dId) ==
  /\ page = "routes"
  /\ ~cancelled
  /\ LET toClear == assign[dId]
     IN /\ BagCardinality(pending) + Len(toClear) <= MaxPending
        /\ assign' = [assign EXCEPT ![dId] = <<>>]
        /\ pending' = IssueAll(pending, toClear, FreshBatch(pending))
        \* Promise.all([]) is already resolved: clearEta() follows at once
        /\ routeLayer' = IF toClear = <<>> THEN ClearedRoute ELSE routeLayer
        /\ mapLayers' = IF toClear = <<>> THEN ClearedLayers ELSE mapLayers
        /\ popup' = IF toClear = <<>> THEN ClearedPopup ELSE popup
  /\ UNCHANGED <<page, extVars, dpVars, catVars, viewVars, dndVars, originRef, reqs, normVars>>

\* a relay fetch settles; the last one of a clearDriver batch resumes it: clearEta()
RelaySettle(c, ok) ==
  /\ page = "routes"
  /\ c \in BagToSet(pending)
  /\ pending' = pending (-) SetToBag({c})
  /\ assign' = SettledAssign(assign, c, ok)
  /\ LET resumes == c.batch # 0 /\ c.batch \notin Batches(pending')
     IN /\ routeLayer' = IF resumes THEN ClearedRoute ELSE routeLayer
        /\ mapLayers' = IF resumes THEN ClearedLayers ELSE mapLayers
        /\ popup' = IF resumes THEN ClearedPopup ELSE popup
  /\ UNCHANGED <<page, extVars, dpVars, catVars, viewVars, dndVars, originRef, reqs, normVars>>

\* the task store applies POST { id, assignedDriver }: the rows of that id take
\* the driver name ('' clears)
StoreApply(sh, c) ==
  [i \in 1..Len(sh) |->
     IF sh[i].id = c.id THEN [sh[i] EXCEPT !.assignedDriver = c.assignedDriver] ELSE sh[i]]

\* a relay call is delivered: the store applies it and the fetch resolves
RelayDeliver(c) ==
  /\ page = "routes"
  /\ c \in BagToSet(pending)
  /\ sheet' = StoreApply(sheet, c)
  /\ pending' = pending (-) SetToBag({c})
  /\ assign' = SettledAssign(assign, c, TRUE)
  /\ LET resumes == c.batch # 0 /\ c.batch \notin Batches(pending')
     IN /\ routeLayer' = IF resumes THEN ClearedRoute ELSE routeLayer
        /\ mapLayers' = IF resumes THEN ClearedLayers ELSE mapLayers
        /\ popup' = IF resumes THEN ClearedPopup ELSE popup
  /\ UNCHANGED <<page, points, dpVars, catVars, viewVars, dndVars, originRef, reqs, normVars>>

\* SetOrigin that opens the point's popup and keeps the origin
SetOriginKept(i) ==
  /\ page = "routes"
  /\ ~cancelled
  /\ i \in 1..Len(points)
  /\ originRef' = originRef
  /\ popup' = Popup(0, "Origin set")
  /\ UNCHANGED <<page, extVars, dpVars, catVars, viewVars, assign, dndVars, pending, routeLayer, mapLayers, reqs,
                 normVars>>

\* click on a POINTS marker: originRef.current = [lng, lat], 'Origin set' popup
SetOrigin(i) ==
  /\ page = "routes"
  /\ ~cancelled
  /\ i \in 1..Len(points)
  /\ originRef' = points[i].coordinates
  /\ popup' = Popup(0, "Origin set")
  /\ UNCHANGED <<page, extVars, dpVars, catVars, viewVars, assign, dndVars, pending, routeLayer, mapLayers, reqs,
                 normVars>>

\* the Clear ETA button, or the Escape key
ClearEta ==
  /\ page = "routes"
  /\ ~cancelled
  /\ routeLayer' = ClearedRoute
  /\ mapLayers' = ClearedLayers
  /\ popup' = ClearedPopup
  /\ UNCHANGED <<page, extVars, dpVars, catVars, viewVars, assign, dndVars, pending, originRef, reqs,
                 normVars>>

\* routeDriver(driverId), up to its await
RouteDriver(driverId) ==
  /\ page = "routes"
  /\ ~cancelled
  /\ Len(reqs) < MaxReqs
  /\ LET coords == coordsForDriver(originRef, tasks, assign, driverId)
     IN IF ~mapRef THEN UNCHANGED <<popup, reqs>>
        ELSE IF Len(coords) < 2
        THEN /\ popup' = Popup(0, "No tasks assigned for this driver.")
             /\ UNCHANGED reqs
        ELSE /\ popup' = Popup(FreshReq, "Building multi-stop route")
             /\ reqs' = Append(reqs, Request(FreshReq, "multi", driverId, coords, "primary"))
  /\ UNCHANGED <<page, extVars, dpVars, catVars, viewVars, assign, dndVars, pending, originRef, routeLayer, mapLayers,
                 normVars>>

\* MultiResponse whose failure takes the driver's tasks off the ledger
MultiResponseUnassigning(i, r) ==
  /\ page = "routes"
  /\ i \in 1..Len(reqs)
  /\ reqs[i].kind = "multi"
  /\ LET rq == reqs[i]
         then == MultiStopNext(rq.stage, r)
     IN IF then = "success"
        THEN LET n == normalizeToGeoJSON(r.body)[1]
             IN /\ reqs' = RemoveAt(reqs, i)
                /\ routeLayer' = DrawnRoute(rq, n.geojson)
                /\ mapLayers' = DrawnLayers(rq, n.geojson)
                /\ popup' = SetContent(rq.id,
                              IF HasSummary(n) THEN "Total Route" ELSE "Route ready")
                /\ assign' = assign
        ELSE /\ reqs' = RemoveAt(reqs, i)
             /\ routeLayer' = routeLayer
             /\ mapLayers' = mapLayers
             /\ popup' = SetContent(rq.id, "Could not build multi-stop route.")
             /\ assign' = [assign EXCEPT ![rq.target] = <<>>]
  /\ UNCHANGED <<page, extVars, dpVars, catVars, viewVars, dndVars, pending, originRef, normVars>>

\* routeDriver resumes: the provider answered fetchMultiStopRoute's request
MultiResponse(i, r) ==
  /\ page = "routes"
  /\ i \in 1..Len(reqs)
  /\ reqs[i].kind = "multi"
  /\ LET rq == reqs[i]
         then == MultiStopNext(rq.stage, r)
     IN IF then = "success"
        THEN LET n == normalizeToGeoJSON(r.body)[1]
             IN /\ reqs' = RemoveAt(reqs, i)
                /\ routeLayer' = DrawnRoute(rq, n.geojson)
                /\ mapLayers' = DrawnLayers(rq, n.geojson)
                /\ popup' = SetContent(rq.id,
                              IF HasSummary(n) THEN "Total Route" ELSE "Route ready")
        ELSE /\ reqs' = RemoveAt(reqs, i)
             /\ routeLayer' = routeLayer
             /\ mapLayers' = mapLayers
             /\ popup' = SetContent(rq.id, "Could not build multi-stop route.")
  /\ UNCHANGED <<page, extVars, dpVars, catVars, viewVars, assign, dndVars, pending, originRef, normVars>>

\* the operator leaves the page: the effects' cleanups run, map.remove() takes
\* the map with its layers and popup away, the load effect's flag is set
Unmount ==
  /\ page = "routes"
  /\ ~cancelled
  /\ cancelled' = TRUE
  /\ mapRef' = FALSE
  /\ mapLayers' = EmptyBag
  /\ popup' = NoPopup
  /\ UNCHANGED <<page, extVars, dpVars, catVars, assign, dndVars, pending, originRef, routeLayer, reqs,
                 normVars>>

\* click on a task marker, up to its await
MarkerClick(k) ==
  /\ page = "routes"
  /\ ~cancelled
  /\ Len(reqs) < MaxReqs
  /\ k \in 1..Len(tasks)
  /\ isFinite(tasks[k].lat) /\ isFinite(tasks[k].lng)
  /\ LET t == tasks[k]
         coords == <<originRef, <<t.lng[1], t.lat[1]>> >>
     IN IF ~mapRef THEN UNCHANGED <<popup, reqs>>
        ELSE /\ popup' = Popup(FreshReq, "Fetching route")
             /\ reqs' = Append(reqs, Request(FreshReq, "single", t.id, coords, "primary"))
  /\ UNCHANGED <<page, extVars, dpVars, catVars, viewVars, assign, dndVars, pending, originRef, routeLayer, mapLayers,
                 normVars>>

\* SingleResponse that starts over with the primary request when the fallback
\* request has failed
SingleResponseRetrying(i, r) ==
  /\ page = "routes"
  /\ i \in 1..Len(reqs)
  /\ reqs[i].kind = "single"
  /\ LET rq == reqs[i]
     IN IF Returns(r)
        THEN LET n == normalizeToGeoJSON(r.body)[1]
             IN /\ reqs' = RemoveAt(reqs, i)
                /\ routeLayer' = DrawnRoute(rq, n.geojson)
                /\ mapLayers' = DrawnLayers(rq, n.geojson)
                /\ popup' = SetContent(rq.id, IF HasSummary(n) THEN "ETA" ELSE "No summary")
        ELSE /\ reqs' = [reqs EXCEPT ![i].stage =
                                  IF @ = "primary" THEN "fallback" ELSE "primary"]
             /\ UNCHANGED routeVars
  /\ UNCHANGED <<page, extVars, dpVars, catVars, viewVars, assign, dndVars, pending, originRef, normVars>>

\* the marker click resumes: the provider answered a request of fetchSingleLeg
SingleResponse(i, r) ==
  /\ page = "routes"
  /\ i \in 1..Len(reqs)
  /\ reqs[i].kind = "single"
  /\ LET rq == reqs[i]
         then == SingleLegNext(rq.stage, r)
     IN CASE then = "success" ->
               LET n == normalizeToGeoJSON(r.body)[1]
               IN /\ reqs' = RemoveAt(reqs, i)
                  /\ routeLayer' = DrawnRoute(rq, n.geojson)
                  /\ mapLayers' = DrawnLayers(rq, n.geojson)
                  /\ popup' = SetContent(rq.id, IF HasSummary(n) THEN "ETA" ELSE "No summary")
          [] then = "fallback" ->
               /\ reqs' = [reqs EXCEPT ![i].stage = "fallback"]
               /\ UNCHANGED routeVars
          [] OTHER ->
               /\ reqs' = RemoveAt(reqs, i)
               /\ routeLayer' = routeLayer
               /\ mapLayers' = mapLayers
               /\ popup' = SetContent(rq.id, "Could not get route/ETA.")
  /\ UNCHANGED <<page, extVars, dpVars, catVars, viewVars, assign, dndVars, pending, originRef, normVars>>

\* normalizeToGeoJSON applied to the body at hand
Normalize ==
  /\ page = "routes"
  /\ norm = None
  /\ norm' = Some(normalizeToGeoJSON(resp))
  /\ UNCHANGED <<page, extVars, dpVars, catVars, viewVars, assign, dndVars, pending, originRef, routeVars,
                 reqs, resp, mapQuery, parsed>>

\* ---------------------------------------------------------- 'Show on Map'
MaxPieces == 4       \* longest text of the field, in pieces

\* the characters /[,\s]+/ matches, and the tokens typed between them
Separators == {",", " "}
Tokens == {"12", "-91", "91", "181", "abc", "Infinity"}

\* the texts of the field: tokens with separators around and between them
Queries ==
  {q \in UNION {[1..k -> Separators \cup Tokens] : k \in 0..MaxPieces} :
     \A i \in 1..(Len(q) - 1) : q[i] \in Separators \/ q[i + 1] \in Separators}

\* Number(s) on the tokens of the model; None stands for NaN and Infinity
Number(s) ==
  CASE s = "12" -> Some(12)
    [] s = "-91" -> Some(-91)
    [] s = "91" -> Some(91)
    [] s = "181" -> Some(181)
    [] OTHER -> None

\* Math.abs
Abs(x) == IF x < 0 THEN -x ELSE x

RECURSIVE TrimStart(_)
TrimStart(q) == IF q # <<>> /\ Head(q) = " " THEN TrimStart(Tail(q)) ELSE q

RECURSIVE TrimEnd(_)
TrimEnd(q) ==
  IF q # <<>> /\ q[Len(q)] = " " THEN TrimEnd(SubSeq(q, 1, Len(q) - 1)) ELSE q

\* String.prototype.trim
Trim(q) == TrimEnd(TrimStart(q))

RECURSIVE SplitFrom(_, _, _)
\* the pieces of q after the current one: cur is the part being read, inSep
\* tells that the last piece was a separator
SplitFrom(q, cur, inSep) ==
  IF q = <<>> THEN <<cur>>
  ELSE IF Head(q) \in Separators
       THEN IF inSep THEN SplitFrom(Tail(q), cur, TRUE)
            ELSE <<cur>> \o SplitFrom(Tail(q), "", TRUE)
       ELSE SplitFrom(Tail(q), Head(q), FALSE)

\* input.split(/[,\s]+/): a separator at either end leaves an empty part
Split(q) == SplitFrom(q, "", FALSE)

\* parseCoords that checks the latitude only
parseCoordsLatOnly(input) ==
  LET parts == Filter(Split(Trim(input)), "")
  IN IF Len(parts) < 2 THEN None
     ELSE LET a == Number(parts[1])
              b == Number(parts[2])
          IN IF ~isFinite(a) \/ ~isFinite(b) THEN None
             ELSE LET swap == Abs(a[1]) > 90 /\ Abs(b[1]) <= 90
                      lat == IF swap THEN b[1] ELSE a[1]
                      lng == IF swap THEN a[1] ELSE b[1]
                  IN IF Abs(lat) > 90 THEN None
                     ELSE Some([lat |-> lat, lng |-> lng])

\* parseCoords(input)
parseCoords(input) ==
  LET parts == Filter(Split(Trim(input)), "")
  IN IF Len(parts) < 2 THEN None
     ELSE LET a == Number(parts[1])
              b == Number(parts[2])
          IN IF ~isFinite(a) \/ ~isFinite(b) THEN None
             ELSE LET swap == Abs(a[1]) > 90 /\ Abs(b[1]) <= 90
                      lat == IF swap THEN b[1] ELSE a[1]
                      lng == IF swap THEN a[1] ELSE b[1]
                  IN IF Abs(lat) > 90 \/ Abs(lng) > 180 THEN None
                     ELSE Some([lat |-> lat, lng |-> lng])

\* parseCoords applied to the text at hand
ParseCoords ==
  /\ page = "routes"
  /\ parsed = None
  /\ parsed' = Some(parseCoords(mapQuery))
  /\ UNCHANGED <<page, extVars, dpVars, catVars, viewVars, assign, dndVars, pending, originRef, routeVars,
                 reqs, resp, norm, mapQuery>>

\* ------------------------------------------------------------ DriversPage
\* insertAt(arr, index, item): a.splice(index, 0, item)
insertAt(arr, index, item) == SpliceIn(arr, index, item)

\* removeAt(arr, index): a.splice(index, 1)
removeAt(arr, index) == SpliceOut(arr, index)

\* reorder(arr, start, end): const [m] = a.splice(start, 1); a.splice(end, 0, m)
reorder(arr, start, end) == SpliceIn(SpliceOut(arr, start), end, SpliceTaken(arr, start))

RECURSIVE normalize(_)
\* normalize(raw): rows without a finite lat and lng are dropped
normalize(rows) ==
  IF rows = <<>> THEN <<>>
  ELSE LET r == Head(rows)
       IN IF ~isFinite(r.lat) \/ ~isFinite(r.lng) THEN normalize(Tail(rows))
          ELSE <<r>> \o normalize(Tail(rows))

RECURSIVE WithoutDriver(_)
\* tasks.filter((t) => !t.assignedDriver)
WithoutDriver(ts) ==
  IF ts = <<>> THEN <<>>
  ELSE IF Head(ts).assignedDriver # "" THEN WithoutDriver(Tail(ts))
       ELSE <<Head(ts)>> \o WithoutDriver(Tail(ts))

\* prev.map((t) => (t.id === taskId ? { ...t, assignedDriver: driverName } : t))
SetAssignedDriver(ts, taskId, driverName) ==
  [i \in 1..Len(ts) |->
     IF ts[i].id = taskId THEN [ts[i] EXCEPT !.assignedDriver = driverName] ELSE ts[i]]

\* allTasks.find((t) => t.id === taskId)
FindTask(ts, taskId) ==
  LET hits == {i \in 1..Len(ts) : ts[i].id = taskId}
  IN IF hits = {} THEN None ELSE Some(ts[CHOOSE i \in hits : \A j \in hits : i <= j])

\* the <Draggable>s DriversPage renders, as <<droppableId, index>>
DriverPageDraggables ==
  {<<"unassigned", i - 1>> : i \in 1..Len(unassigned)}
  \cup UNION {{<<d, i - 1>> : i \in 1..Len(dpDrivers[d])} : d \in DriverPageIds}

\* DriversPage load effect, fetch and res.json() succeeded
DriversLoadOk(rowsIsArray) ==
  /\ page = "drivers"
  /\ dpLoad = "pending"
  /\ dpLoad' = "done"
  /\ loadError' = None
  /\ LET ts == normalize(IF rowsIsArray THEN sheet ELSE <<>>)
     IN /\ allTasks' = ts
        /\ unassigned' = WithoutDriver(ts)
  /\ UNCHANGED <<page, extVars, dpDrivers, rpVars>>

\* DriversPage load effect, the fetch or res.json() threw
DriversLoadFail ==
  /\ page = "drivers"
  /\ dpLoad = "pending"
  /\ dpLoad' = "failed"
  /\ loadError' = Some("load failed")
  /\ allTasks' = <<>>
  /\ unassigned' = <<>>
  /\ UNCHANGED <<page, extVars, dpDrivers, rpVars>>

\* DriversPage.onDragEnd with a destination
DriversOnDragEnd(src, sIdx, dst, dIdx) ==
  /\ page = "drivers"
  /\ <<src, sIdx>> \in DriverPageDraggables
  /\ IF src = dst
     THEN \* 1) reorder inside the same list
          IF src = "unassigned"
          THEN /\ unassigned' = reorder(unassigned, sIdx, dIdx)
               /\ UNCHANGED <<allTasks, dpDrivers>>
          ELSE /\ dpDrivers' = [dpDrivers EXCEPT ![src] = reorder(@, sIdx, dIdx)]
               /\ UNCHANGED <<allTasks, unassigned>>
     ELSE IF src = "unassigned"
     THEN \* 2) Unassigned -> driver
          LET task == unassigned[sIdx + 1]
          IN /\ unassigned' = removeAt(unassigned, sIdx)
             /\ dpDrivers' = [dpDrivers EXCEPT ![dst] = insertAt(@, dIdx, task.id)]
             /\ allTasks' = SetAssignedDriver(allTasks, task.id, DriverPageName(dst))
     ELSE LET taskId == SpliceTaken(dpDrivers[src], sIdx)
          IN IF taskId = Undefined
             THEN UNCHANGED <<allTasks, unassigned, dpDrivers>>
             ELSE IF dst = "unassigned"
             THEN \* 3) driver -> Unassigned
                  LET task == FindTask(allTasks, taskId)
                  IN /\ dpDrivers' = [dpDrivers EXCEPT ![src] = removeAt(@, sIdx)]
                     /\ unassigned' = IF task # None
                                      THEN insertAt(unassigned, dIdx, task[1])
                                      ELSE unassigned
                     /\ allTasks' = SetAssignedDriver(allTasks, taskId, "")
             ELSE \* 4) driver -> driver
                  /\ dpDrivers' = [dpDrivers EXCEPT ![src] = removeAt(@, sIdx),
                                                    ![dst] = insertAt(@, dIdx, taskId)]
                  /\ allTasks' = SetAssignedDriver(allTasks, taskId, DriverPageName(dst))
                  /\ UNCHANGED unassigned
  /\ UNCHANGED <<page, extVars, dpLoad, loadError, rpVars>>

\* ---------------------------------------------------------- specifications
\* the mounted page under load, drag-and-drop, Clear and the relay
Next ==
  \/ \E b \in BOOLEAN : LoadOk(b)
  \/ LoadFail
  \/ \E d \in Draggables(tasks, assign) : OnDragStart(d)
  \/ OnDragEndCancelled
  \/ \E dst \in Droppables, dIdx \in 0..MaxSeq : OnDragEnd(dst, dIdx)
  \/ \E d \in DriverIds : ClearDriver(d)
  \/ \E c \in BagToSet(pending), ok \in BOOLEAN : RelaySettle(c, ok)
  \/ \E b \in BOOLEAN : DriversLoadOk(b)
  \/ DriversLoadFail
  \/ \E from \in DriverPageDraggables, dst \in {"unassigned"} \cup DriverPageIds,
        dIdx \in 0..MaxSeq : DriversOnDragEnd(from[1], from[2], dst, dIdx)

Spec == Init /\ [][Next]_vars

\* the page under load and the routing actions, one request at a time
InitRoute ==
  /\ page = "routes"
  /\ InitPage(SheetsOf({"RAKESH"}, TRUE), {<<Laundry, Depot>>})
  /\ resp = OtherBody
  /\ norm = None
  /\ mapQuery = <<>>
  /\ parsed = None

NextRoute ==
  \/ \E b \in BOOLEAN : LoadOk(b)
  \/ LoadFail
  \/ \E i \in 1..Len(points) : SetOrigin(i)
  \/ ClearEta
  \/ \E d \in DriverIds : reqs = <<>> /\ RouteDriver(d)
  \/ \E i \in 1..Len(reqs), r \in Responses : MultiResponse(i, r)
  \/ \E k \in 1..Len(tasks) : reqs = <<>> /\ MarkerClick(k)
  \/ \E i \in 1..Len(reqs), r \in Responses : SingleResponse(i, r)

SpecRoute == InitRoute /\ [][NextRoute]_vars

\* coordsForDriver on every catalog, ledger and origin of the model: the page
\* after the load, holding any ledger the drop events and Clear can leave
\* (entries are catalog ids or undefined, every id in at most one place; a
\* stale drop puts undefined next to others only while its source, just
\* cleared, holds none, so some driver holds at most one undefined)
SeqsUpTo(S, n) == UNION {[1..k -> S] : k \in 0..n}

Occurrences(a, id) ==
  Cardinality({<<d, i>> \in DriverIds \X (1..MaxSeq) : i <= Len(a[d]) /\ a[d][i] = id})

Ledgers(ts) ==
  LET ids == {ts[i].id : i \in 1..Len(ts)}
      entries == IF ids = {} THEN {} ELSE ids \cup {Undefined}
  IN {a \in [DriverIds -> SeqsUpTo(entries, MaxSeq)] :
        /\ \A id \in ids : Occurrences(a, id) <= 1
        /\ \E d \in DriverIds :
             Cardinality({i \in 1..Len(a[d]) : a[d][i] = Undefined}) <= 1}

\* the page after its load, nothing in progress
InitLoaded(sheets, pointSets) ==
  /\ page = "routes"
  /\ sheet \in sheets
  /\ points \in pointSets
  /\ loadPc = "done"
  /\ tasks = sheet
  /\ cancelled = FALSE
  /\ mapRef = TRUE
  /\ drag = None
  /\ interactions = TRUE
  /\ pending = EmptyBag
  /\ originRef = getLaundryLngLat(points)
  /\ routeLayer = None
  /\ mapLayers = EmptyBag
  /\ popup = NoPopup
  /\ reqs = <<>>
  /\ resp = OtherBody
  /\ norm = None
  /\ mapQuery = <<>>
  /\ parsed = None
  /\ dpLoad = "pending"
  /\ loadError = None
  /\ allTasks = <<>>
  /\ unassigned = <<>>
  /\ dpDrivers = [d \in DriverPageIds |-> <<>>]

InitCoords ==
  /\ InitLoaded(SheetsOf({""}, TRUE), PointSets)
  /\ assign \in Ledgers(sheet)

\* one route request per catalog, ledger and origin
NextCoords ==
  \/ \E i \in 1..Len(points) : SetOrigin(i)
  \/ \E d \in DriverIds : reqs = <<>> /\ RouteDriver(d)

SpecCoords == InitCoords /\ [][NextCoords]_vars

\* fetchSingleLeg under every answer of the provider: marker clicks on the
\* loaded page and the responses to their requests
InitLeg ==
  /\ InitLoaded(SheetsOf({""}, TRUE), PointSets)
  /\ assign = EmptyAssign

NextLeg ==
  \/ \E k \in 1..Len(tasks) : MarkerClick(k)
  \/ \E i \in 1..Len(reqs), r \in Responses : SingleResponse(i, r)

SpecLeg == InitLeg /\ [][NextLeg]_vars

\* the loaded page with its seeded ledger under drag-and-drop, Clear, the
\* relay and 'build route': ledger mutations while a route is drawn (a route
\* is requested between gestures, and answered before the next one starts)
InitEdit ==
  /\ InitLoaded(SheetsOf({"RAKESH"}, FALSE), {<<Laundry, Depot>>})
  /\ assign = SeedAssign(sheet, EmptyAssign)

NextEdit ==
  \/ \E d \in Draggables(tasks, assign) : reqs = <<>> /\ OnDragStart(d)
  \/ OnDragEndCancelled
  \/ \E dst \in Droppables, dIdx \in 0..MaxSeq : OnDragEnd(dst, dIdx)
  \/ \E d \in DriverIds : reqs = <<>> /\ ClearDriver(d)
  \/ \E c \in BagToSet(pending), ok \in BOOLEAN : RelaySettle(c, ok)
  \/ \E d \in DriverIds :
       reqs = <<>> /\ drag = None /\ pending = EmptyBag /\ RouteDriver(d)
  \/ \E i \in 1..Len(reqs), r \in Responses : MultiResponse(i, r)

SpecEdit == InitEdit /\ [][NextEdit]_vars

\* Clear and 'build route' on the loaded page while the relay calls of a Clear
\* settle: a driver is cleared only with no route drawn and no request in
\* flight, so every route on the map answers a request issued after the last
\* change of the ledger
InitSettle ==
  /\ InitLoaded(SheetsOf({"RAKESH", "Jagannath"}, FALSE), {<<Laundry, Depot>>})
  /\ assign = SeedAssign(sheet, EmptyAssign)

NextSettle ==
  \/ \E d \in DriverIds : reqs = <<>> /\ routeLayer = None /\ ClearDriver(d)
  \/ \E c \in BagToSet(pending), ok \in BOOLEAN : RelaySettle(c, ok)
  \/ \E d \in DriverIds : reqs = <<>> /\ RouteDriver(d)
  \/ \E i \in 1..Len(reqs), r \in Responses : MultiResponse(i, r)
  \/ ClearEta

SpecSettle == InitSettle /\ [][NextSettle]_vars

\* the page under its load and the routing actions, left at any moment: the
\* load and the requests in flight are answered after the page is gone
NextLeave ==
  \/ LoadOk(TRUE)
  \/ LoadFail
  \/ Unmount
  \/ \E d \in DriverIds : reqs = <<>> /\ RouteDriver(d)
  \/ \E i \in 1..Len(reqs), r \in Responses : MultiResponse(i, r)
  \/ \E k \in 1..Len(tasks) : reqs = <<>> /\ MarkerClick(k)
  \/ \E i \in 1..Len(reqs), r \in Responses : SingleResponse(i, r)

SpecLeave == InitRoute /\ [][NextLeave]_vars

\* 'build route', marker clicks and Clear ETA on the loaded page with up to
\* MaxReqs requests in flight, answered in any order
NextRace ==
  \/ ClearEta
  \/ \E d \in DriverIds : RouteDriver(d)
  \/ \E i \in 1..Len(reqs), r \in Responses : MultiResponse(i, r)
  \/ \E k \in 1..Len(tasks) : MarkerClick(k)
  \/ \E i \in 1..Len(reqs), r \in Responses : SingleResponse(i, r)

SpecRace == InitEdit /\ [][NextRace]_vars

\* the same with every request in flight eventually answered (the fetch settles)
SpecRaceLive ==
  /\ SpecRace
  /\ \A id \in 1..(MaxReqs + 1) :
       WF_vars(\E i \in 1..Len(reqs), r \in Responses :
                 /\ reqs[i].id = id
                 /\ (MultiResponse(i, r) \/ SingleResponse(i, r)))

\* drag-and-drop and Clear, one relay call at a time, while a multi-stop
\* request is in flight
NextLate ==
  \/ \E d \in Draggables(tasks, assign) : pending = EmptyBag /\ OnDragStart(d)
  \/ OnDragEndCancelled
  \/ \E dst \in Droppables, dIdx \in 0..MaxSeq : OnDragEnd(dst, dIdx)
  \/ \E d \in DriverIds : pending = EmptyBag /\ drag = None /\ ClearDriver(d)
  \/ \E c \in BagToSet(pending), ok \in BOOLEAN : RelaySettle(c, ok)
  \/ \E d \in DriverIds :
       reqs = <<>> /\ drag = None /\ pending = EmptyBag /\ routeLayer = None /\ RouteDriver(d)
  \/ \E i \in 1..Len(reqs), r \in Responses : MultiResponse(i, r)

SpecLate == InitEdit /\ [][NextLate]_vars

\* the page and the task store: every relay call is delivered and applied, in
\* any order
InitStore ==
  /\ page = "routes"
  /\ InitPage(SheetsOf({"", "Rakesh"}, FALSE), {<<Laundry, Depot>>})
  /\ resp = OtherBody
  /\ norm = None
  /\ mapQuery = <<>>
  /\ parsed = None

NextStore ==
  \/ LoadOk(TRUE)
  \/ LoadFail
  \/ \E d \in Draggables(tasks, assign) : OnDragStart(d)
  \/ OnDragEndCancelled
  \/ \E dst \in Droppables, dIdx \in 0..MaxSeq : OnDragEnd(dst, dIdx)
  \/ \E d \in DriverIds : ClearDriver(d)
  \/ \E c \in BagToSet(pending) : RelayDeliver(c)

SpecStore == InitStore /\ [][NextStore]_vars

\* normalizeToGeoJSON on every body of the model
InitNorm ==
  /\ page = "routes"
  /\ InitPage({<<>>}, {<<Laundry, Depot>>})
  /\ resp \in Bodies
  /\ norm = None
  /\ mapQuery = <<>>
  /\ parsed = None

NextNorm == Normalize

SpecNorm == InitNorm /\ [][NextNorm]_vars

\* parseCoords on every text of the model
InitParse ==
  /\ page = "routes"
  /\ InitPage({<<>>}, {<<Laundry, Depot>>})
  /\ resp = OtherBody
  /\ norm = None
  /\ mapQuery \in Queries
  /\ parsed = None

NextParse == ParseCoords

SpecParse == InitParse /\ [][NextParse]_vars

StaleGestureNoop ==
  [][(/\ drag # None
      /\ drag' = None
      /\ startsWithDrv(drag[1].droppableId)
      /\ LET from == assign[DrvOf(drag[1].droppableId)]
         IN \/ drag[1].index >= Len(from)
            \/ from[drag[1].index + 1] # drag[1].draggableId)
     => assign' = assign]_vars

\* C4: 'build route' for a driver whose sequence holds no task with finite
\* coordinates (the empty sequence included) sends no request to the routing
\* provider and shows the non-error empty state.
NothingToRoute ==
  [][\A d \in DriverIds :
       (/\ RouteDriver(d)
        /\ mapRef
        /\ \A i \in 1..Len(assign[d]) :
             ~\E k \in 1..Len(tasks) :
                /\ tasks[k].id = assign[d][i]
                /\ isFinite(tasks[k].lat) /\ isFinite(tasks[k].lng))
       => /\ reqs' = reqs
          /\ popup'.content = "No tasks assigned for this driver."]_vars

\* C5: multi-stop route - when the primary request comes back with a
\* non-success status, a network error or a body of neither accepted shape, one
\* fallback request is issued before the call may fail.
MultiStopFallback ==
  [][\A i \in 1..Len(reqs), r \in Responses :
       (/\ MultiResponse(i, r)
        /\ reqs[i].stage = "primary"
        /\ \/ r.tag # "json"
           \/ ~IsGeoJSONForm(r.body) /\ ~IsJSONForm(r.body))
       => reqs' = [reqs EXCEPT ![i].stage = "fallback"]]_vars

\* C6: single-leg route - the fallback request is issued if and only if the
\* primary attempt failed (non-success status, network error, body of neither
\* accepted shape); an attempt with a normalizable body ends the call with its
\* route drawn; the call fails only on the failure of the fallback attempt,
\* that is when both attempts failed.
SingleLegProtocol ==
  [][\A i \in 1..Len(reqs), r \in Responses :
       SingleResponse(i, r) =>
         LET failed == \/ r.tag # "json"
                       \/ ~IsGeoJSONForm(r.body) /\ ~IsJSONForm(r.body)
             fallbackIssued == reqs' = [reqs EXCEPT ![i].stage = "fallback"]
             ended == reqs' = RemoveAt(reqs, i)
             drawn == /\ routeLayer' # None
                      /\ routeLayer'[1].kind = "single"
                      /\ routeLayer'[1].coords = reqs[i].coords
                      /\ routeLayer'[1].geojson = normalizeToGeoJSON(r.body)[1].geojson
         IN /\ reqs[i].stage = "primary" => (fallbackIssued <=> failed)
            /\ ~failed => ended /\ drawn
            /\ (failed /\ reqs[i].stage = "fallback") =>
                 /\ ended
                 /\ routeLayer' = routeLayer
                 /\ popup' = SetContent(reqs[i].id, "Could not get route/ETA.")
            /\ (failed /\ ended) => reqs[i].stage = "fallback"]_vars

\* the primary attempt of a marker click failed and its fallback request is out
SingleLegWitness ==
  \E i \in 1..Len(reqs) : reqs[i].kind = "single" /\ reqs[i].stage = "fallback"

\* C7: coordsForDriver(d) starts and ends with the origin, and in between holds
\* exactly the [lng, lat] of the tasks of d's sequence that have finite
\* coordinates, in ledger order (interior length = number of such entries).
BuildCoordinates ==
  \A d \in DriverIds :
    LET c == coordsForDriver(originRef, tasks, assign, d)
        seq == assign[d]
        routable == {i \in 1..Len(seq) :
                       \E k \in 1..Len(tasks) :
                          /\ tasks[k].id = seq[i]
                          /\ tasks[k].lat # None /\ tasks[k].lng # None}
        rank(i) == Cardinality({j \in routable : j <= i})
    IN /\ Len(c) = Cardinality(routable) + 2
       /\ c[1] = originRef
       /\ c[Len(c)] = originRef
       /\ \A i \in routable :
            \E k \in 1..Len(tasks) :
               /\ tasks[k].id = seq[i]
               /\ c[1 + rank(i)] = <<tasks[k].lng[1], tasks[k].lat[1]>>

\* a route was requested for a driver holding <<2, 1>> where task 1 has no
\* latitude: the request carries the origin, task 2 and the origin
BuildCoordinatesWitness ==
  \E i \in 1..Len(reqs) :
    /\ reqs[i].kind = "multi"
    /\ assign[reqs[i].target] = <<2, 1>>
    /\ tasks[1].lat = None
    /\ reqs[i].coords = <<originRef, <<LngOf(2), LatOf(2)>>, originRef>>

\* C8: clearDriver(d) on a driver holding n entries empties d's sequence, leaves
\* the n tasks with no driver and every other sequence as it was, and issues
\* exactly n relay calls, one per cleared id and each with the empty driver
\* name; a relay call settling, well or badly, changes no sequence and issues
\* no further call.
ClearDriverEffect ==
  [][/\ \A d \in DriverIds :
          ClearDriver(d) =>
            LET toClear == assign[d]
                issued == pending' (-) pending
            IN /\ assign'[d] = <<>>
               /\ \A i \in 1..Len(toClear) :
                    toClear[i] \in TaskIds =>
                      \A e \in DriverIds : \A j \in 1..Len(assign'[e]) :
                         assign'[e][j] # toClear[i]
               /\ \A e \in DriverIds \ {d} : assign'[e] = assign[e]
               /\ pending \sqsubseteq pending'
               /\ BagCardinality(issued) = Len(toClear)
               /\ \A c \in BagToSet(issued) :
                    /\ c.assignedDriver = ""
                    /\ CopiesIn(c, issued) =
                         Cardinality({i \in 1..Len(toClear) : toClear[i] = c.id})
     /\ \A c \in BagToSet(pending), ok \in BOOLEAN :
          RelaySettle(c, ok) =>
            /\ assign' = assign
            /\ BagCardinality(pending') = BagCardinality(pending) - 1]_vars

\* Clear on a driver that held tasks 1 and 2: both sequences are empty and the
\* two calls of the batch, one per task, are in flight
ClearDriverWitness ==
  /\ \A d \in DriverIds : assign[d] = <<>>
  /\ \E k \in 1..(MaxPending + 1) :
       pending = SetToBag({Call(1, "", k), Call(2, "", k)})

\* C9: a body in the routes-array shape (routes[0].geometry with a type and
\* coordinates, no FeatureCollection) normalizes to a FeatureCollection of
\* exactly one feature carrying that geometry, with summary routes[0].summary;
\* a FeatureCollection body is returned unchanged as the geometry.
NormalizeShapes ==
  norm # None =>
    LET isCollection == resp.type = "FeatureCollection" /\ resp.features # None
        isRoutes == /\ resp.routes # None
                    /\ resp.routes[1] # <<>>
                    /\ resp.routes[1][1].geometry # None
                    /\ resp.routes[1][1].geometry[1].type # ""
                    /\ resp.routes[1][1].geometry[1].coordinates # None
        out == norm[1]
    IN /\ (isRoutes /\ ~isCollection) =>
            /\ out # None
            /\ out[1].geojson.type = "FeatureCollection"
            /\ out[1].geojson.features # None
            /\ Len(out[1].geojson.features[1]) = 1
            /\ out[1].geojson.features[1][1].type = "Feature"
            /\ out[1].geojson.features[1][1].geometry = resp.routes[1][1].geometry[1]
            /\ out[1].summary = resp.routes[1][1].summary
       /\ isCollection =>
            /\ out # None
            /\ out[1].geojson = resp

\* a routes-array body with summary distance 5000, duration 600 was normalized
NormalizeShapesWitness ==
  /\ norm # None
  /\ resp.type # "FeatureCollection"
  /\ resp.routes # None
  /\ resp.routes[1] # <<>>
  /\ resp.routes[1][1].geometry = Some(LineString)
  /\ resp.routes[1][1].summary = Some(Summary(5000, 600))
  /\ norm[1] # None
  /\ norm[1][1].summary = Some(Summary(5000, 600))

\* C10: for both accepted shapes the normalized summary is the top-level
\* summary when there is one, else the sums of distance and of duration over
\* the segments; with neither the summary is empty; normalization succeeds.
SummaryBothShapes ==
  norm # None =>
    LET isCollection == IsGeoJSONForm(resp)
        isRoutes == IsJSONForm(resp)
        \* where the shape carries summary and segments
        carrier == IF isCollection
                   THEN IF resp.features[1] = <<>> THEN None
                        ELSE resp.features[1][1].properties
                   ELSE Some(resp.routes[1][1])
        expected == IF carrier = None THEN None
                    ELSE IF carrier[1].summary # None THEN carrier[1].summary
                    ELSE IF carrier[1].segments # None
                         THEN Some(SumSegments(carrier[1].segments[1], Summary(0, 0)))
                         ELSE None
    IN (isCollection \/ isRoutes) =>
         /\ norm[1] # None
         /\ norm[1][1].summary = expected

\* C11: unassign then assign equals one move - for a task t at its place in a
\* driver's sequence, the drop that moves t to index 0 of driver X (X another
\* driver or the same one) leaves the ledger that dropping t on the unassigned
\* list and then dropping it from there on X at index 0 leaves; on the drivers
\* page the assignedDriver fields and the Unassigned list agree as well.
UnassignThenAssign ==
  [][/\ \A dst \in Droppables :
          (/\ OnDragEnd(dst, 0)
           /\ startsWithDrv(drag[1].droppableId)
           /\ startsWithDrv(dst)
           /\ drag[1].index < Len(assign[DrvOf(drag[1].droppableId)])
           /\ assign[DrvOf(drag[1].droppableId)][drag[1].index + 1] = drag[1].draggableId)
          => assign' = AssignFromTasks(
                         AssignUnassign(assign, DrvOf(drag[1].droppableId), drag[1].index),
                         DrvOf(dst), 0, drag[1].draggableId)
     /\ \A src \in DriverPageIds, sIdx \in 0..(MaxSeq - 1), dst \in DriverPageIds :
          DriversOnDragEnd(src, sIdx, dst, 0) =>
            LET id == dpDrivers[src][sIdx + 1]
                freed == [dpDrivers EXCEPT ![src] = removeAt(@, sIdx)]
            IN /\ dpDrivers' = [freed EXCEPT ![dst] = insertAt(@, 0, id)]
               /\ allTasks' = SetAssignedDriver(SetAssignedDriver(allTasks, id, ""),
                                                id, DriverPageName(dst))
               /\ unassigned' = unassigned]_vars

\* nothing was seeded; task 2 went to Rakesh, task 1 in front of it, and task 2
\* (index 1) was then moved to index 0 of Jagannath
UnassignThenAssignWitness ==
  /\ Len(tasks) = 2
  /\ SeedAssign(tasks, EmptyAssign) = EmptyAssign
  /\ assign["rakesh"] = <<1>>
  /\ assign["jagannath"] = <<2>>
  /\ drag = None

\* C12: a reorder with both indices inside the sequence puts the entry of index
\* `from` at index `to`, keeps the other entries in their order, and changes no
\* other sequence, no catalog task and no relay call; so driverA = [t1, t2]
\* reordered 1 -> 0 is [t2, t1], with nothing left unassigned.
ReorderWithin ==
  [][/\ \A dst \in Droppables, dIdx \in 0..MaxSeq :
          (/\ OnDragEnd(dst, dIdx)
           /\ startsWithDrv(dst)
           /\ drag[1].droppableId = dst
           /\ drag[1].index < Len(assign[DrvOf(dst)])
           /\ dIdx < Len(assign[DrvOf(dst)]))
          => LET d == DrvOf(dst)
                 from == drag[1].index
             IN /\ Len(assign'[d]) = Len(assign[d])
                /\ assign'[d][dIdx + 1] = assign[d][from + 1]
                /\ SpliceOut(assign'[d], dIdx) = SpliceOut(assign[d], from)
                /\ \A e \in DriverIds \ {d} : assign'[e] = assign[e]
                /\ tasks' = tasks
                /\ pending' = pending
                /\ Unassigned(tasks', assign') = Unassigned(tasks, assign)
                /\ (assign[d] = <<1, 2>> /\ from = 1 /\ dIdx = 0) => assign'[d] = <<2, 1>>
     /\ \A src \in DriverPageIds, sIdx \in 0..(MaxSeq - 1), dIdx \in 0..(MaxSeq - 1) :
          (DriversOnDragEnd(src, sIdx, src, dIdx) /\ dIdx < Len(dpDrivers[src]))
          => /\ Len(dpDrivers'[src]) = Len(dpDrivers[src])
             /\ dpDrivers'[src][dIdx + 1] = dpDrivers[src][sIdx + 1]
             /\ SpliceOut(dpDrivers'[src], dIdx) = SpliceOut(dpDrivers[src], sIdx)
             /\ \A e \in DriverPageIds \ {src} : dpDrivers'[e] = dpDrivers[e]
             /\ allTasks' = allTasks
             /\ unassigned' = unassigned]_vars

\* both tasks came unassigned from the store and now sit on one driver as
\* [t2, t1]; the unassigned pool is empty
ReorderWithinWitness ==
  /\ Len(tasks) = 2
  /\ SeedAssign(tasks, EmptyAssign) = EmptyAssign
  /\ \E d \in DriverIds : assign[d] = <<2, 1>>
  /\ Unassigned(tasks, assign) = <<>>
  /\ drag = None

\* C13: a relay call that settles, resolved or rejected, leaves the ledger and
\* the catalog as they were: the mutation that issued it is not rolled back,
\* the load state does not turn to failed and no popup with a message opens.
RelayFailureLocal ==
  [][\A c \in BagToSet(pending), ok \in BOOLEAN :
       RelaySettle(c, ok) =>
         /\ assign' = assign
         /\ tasks' = tasks
         /\ loadPc' = loadPc
         /\ popup' \in {popup, NoPopup}]_vars

\* task 1, unassigned in the store, was dropped on Rakesh; its relay call has
\* settled and the ledger still holds the assignment
RelayFailureLocalWitness ==
  /\ Len(tasks) >= 1
  /\ SeedAssign(tasks, EmptyAssign) = EmptyAssign
  /\ assign["rakesh"] = <<1>>
  /\ assign["jagannath"] = <<>>
  /\ pending = EmptyBag
  /\ drag = None

\* C14: the denormalized projection - once the catalog is loaded, a catalog
\* task's assignedDriver field names (up to letter case) driver d exactly when
\* d's sequence holds the task, so it is empty exactly when no sequence does.
ProjectionConsistent ==
  /\ loadPc = "done" =>
       \A k \in 1..Len(tasks), d \in DriverIds :
          (\E i \in 1..Len(assign[d]) : assign[d][i] = tasks[k].id)
          <=> toLowerCase(tasks[k].assignedDriver) = toLowerCase(DriverName(d))
  /\ dpLoad = "done" =>
       \A k \in 1..Len(allTasks), d \in DriverPageIds :
          (\E i \in 1..Len(dpDrivers[d]) : dpDrivers[d][i] = allTasks[k].id)
          <=> toLowerCase(allTasks[k].assignedDriver) = toLowerCase(DriverPageName(d))

\* C15: every ledger mutation - a drop on a driver or on the Tasks list, a
\* reorder, Clear - leaves no drawn route in the state right after it.
MutationClearsRoute ==
  [][(\/ \E dst \in Droppables, dIdx \in 0..MaxSeq :
           /\ OnDragEnd(dst, dIdx)
           /\ DropCase(drag[1].droppableId, dst) # "none"
      \/ \E d \in DriverIds : ClearDriver(d))
     => routeLayer' = None]_vars

\* C16: a drop without destination changes no sequence, starts no relay call
\* and leaves the drawn route and the open popup as they are.
CancelledDrop ==
  [][OnDragEndCancelled =>
       /\ assign' = assign
       /\ tasks' = tasks
       /\ pending' = pending
       /\ routeLayer' = routeLayer
       /\ popup' = popup
       /\ reqs' = reqs]_vars

\* a gesture is in progress over a drawn multi-stop route with its popup open:
\* the drop without destination acts on this state and the route stays
CancelledDropWitness ==
  /\ drag # None
  /\ routeLayer # None
  /\ routeLayer[1].kind = "multi"
  /\ popup.content = "Total Route"

\* C17: the load fails closed per row - after the load every catalog task has
\* a finite latitude and longitude, rows without them being left out of the
\* catalog, of the Unassigned list and of the ledger, all other rows kept.
LoadFailsClosed ==
  /\ loadPc = "done" =>
       /\ \A k \in 1..Len(tasks) : isFinite(tasks[k].lat) /\ isFinite(tasks[k].lng)
       /\ \A i \in 1..Len(sheet) :
            (isFinite(sheet[i].lat) /\ isFinite(sheet[i].lng)) =>
              (tasks = <<>> \/ \E k \in 1..Len(tasks) : tasks[k] = sheet[i])
  /\ dpLoad = "done" =>
       /\ \A k \in 1..Len(allTasks) :
            isFinite(allTasks[k].lat) /\ isFinite(allTasks[k].lng)
       /\ \A k \in 1..Len(unassigned) :
            isFinite(unassigned[k].lat) /\ isFinite(unassigned[k].lng)

\* C18: a drop with an index outside its sequence is clamped or ignored - the
\* sequences after any drop hold only entries the ledger held before it and
\* the dragged task, never an empty or undefined entry.
BadIndexSafe ==
  [][/\ \A dst \in Droppables, dIdx \in 0..MaxSeq :
          OnDragEnd(dst, dIdx) =>
            assignedSet(assign') \subseteq (assignedSet(assign) \cup {drag[1].draggableId})
     /\ \A from \in DriverPageDraggables, dst \in {"unassigned"} \cup DriverPageIds,
           dIdx \in 0..MaxSeq :
          DriversOnDragEnd(from[1], from[2], dst, dIdx) =>
            \A d \in DriverPageIds : \A i \in 1..Len(dpDrivers'[d]) :
               dpDrivers'[d][i] \in TaskIds]_vars

\* C19: the store converges to the ledger - when every relay call issued has
\* been delivered and applied, in whatever order, each row of the store names
\* the driver whose sequence holds its task, and no driver when none does.
StoreConverges ==
  (loadPc = "done" /\ pending = EmptyBag) =>
    \A i \in 1..Len(sheet) :
       /\ \A d \in DriverIds :
            (\E j \in 1..Len(assign[d]) : assign[d][j] = sheet[i].id)
            => sheet[i].assignedDriver = DriverName(d)
       /\ sheet[i].id \notin assignedSet(assign) => sheet[i].assignedDriver = ""

\* C20: one relay call per change of owner - a drop that changes a task's owner
\* starts exactly one relay call, for the dragged task with the new owner's
\* display name ('' on the unassigned list); a reorder starts none; a settling
\* call is never started again.
RelayPerMutation ==
  [][/\ \A dst \in Droppables, dIdx \in 0..MaxSeq :
          OnDragEnd(dst, dIdx) =>
            LET src == drag[1].droppableId
                id == drag[1].draggableId
            IN pending' =
                 IF src = dst \/ (src = TasksList /\ dst = TasksList) THEN pending
                 ELSE pending (+) SetToBag({Call(id,
                        IF dst = TasksList THEN "" ELSE DriverName(DrvOf(dst)), 0)})
     /\ \A c \in BagToSet(pending), ok \in BOOLEAN :
          RelaySettle(c, ok) => pending' = pending (-) SetToBag({c})
     /\ \A from \in DriverPageDraggables, dst \in {"unassigned"} \cup DriverPageIds,
           dIdx \in 0..MaxSeq :
          (DriversOnDragEnd(from[1], from[2], dst, dIdx) /\ from[1] # dst)
          => BagCardinality(pending') = BagCardinality(pending) + 1]_vars

\* C21: when the catalog load fails the catalog is empty, no driver holds a
\* task and a load-error indicator is shown, on either page (and the page
\* still takes events: the load is over, nothing else is disabled).
LoadFailureVisible ==
  /\ loadPc = "failed" =>
       /\ tasks = <<>>
       /\ assign = EmptyAssign
       /\ ~cancelled
       /\ RoutesLoadErrorShown
  /\ dpLoad = "failed" =>
       /\ allTasks = <<>>
       /\ unassigned = <<>>
       /\ \A d \in DriverPageIds : dpDrivers[d] = <<>>
       /\ DriversLoadErrorShown

\* C23: the successful load leaves in each driver's sequence exactly the ids
\* of the catalog rows whose assignedDriver is that driver's display name up
\* to letter case, in row order (so every other task is unassigned), on both
\* pages; until the load the ledger is empty.
SeedFromCatalog ==
  [][/\ loadPc = "pending" => assign = EmptyAssign
     /\ dpLoad = "pending" => \A d \in DriverPageIds : dpDrivers[d] = <<>>
     /\ \A b \in BOOLEAN :
          LoadOk(b) =>
            \A d \in DriverIds :
              LET mine == {k \in 1..Len(tasks') :
                             toLowerCase(tasks'[k].assignedDriver) = toLowerCase(DriverName(d))}
                  rank(k) == Cardinality({j \in mine : j <= k})
              IN /\ Len(assign'[d]) = Cardinality(mine)
                 /\ \A k \in mine : assign'[d][rank(k)] = tasks'[k].id
     /\ \A b \in BOOLEAN :
          DriversLoadOk(b) =>
            \A d \in DriverPageIds :
              LET mine == {k \in 1..Len(allTasks') :
                             toLowerCase(allTasks'[k].assignedDriver)
                               = toLowerCase(DriverPageName(d))}
                  rank(k) == Cardinality({j \in mine : j <= k})
              IN /\ Len(dpDrivers'[d]) = Cardinality(mine)
                 /\ \A k \in mine : dpDrivers'[d][rank(k)] = allTasks'[k].id]_vars

\* C24: once the load is done every catalog task is in exactly one place: one
\* entry of one driver's sequence, or the unassigned pool, never both and
\* never neither.
Partition ==
  /\ loadPc = "done" =>
       \A k \in 1..Len(tasks) :
         LET inPool == Cardinality({j \in 1..Len(Unassigned(tasks, assign)) :
                                      Unassigned(tasks, assign)[j] = tasks[k].id})
         IN Occurrences(assign, tasks[k].id) + inPool = 1
  /\ dpLoad = "done" =>
       \A k \in 1..Len(allTasks) :
         LET held == Cardinality({<<d, i>> \in DriverPageIds \X (1..NumTasks) :
                                    /\ i <= Len(dpDrivers[d])
                                    /\ dpDrivers[d][i] = allTasks[k].id})
             inPool == Cardinality({j \in 1..Len(unassigned) :
                                      unassigned[j].id = allTasks[k].id})
         IN held + inPool = 1

\* C22: a routing request in flight is eventually over, after its primary
\* request and at most one fallback request: the answer to a fallback request
\* or to a multi-stop request always ends it, the answer to a primary
\* single-leg request ends it or sends the one fallback, and a request is
\* started only by 'build route' or a marker click, never by an answer.
RoutingTerminates ==
  /\ \A id \in 1..(MaxReqs + 1) : (id \in ReqIds) ~> (id \notin ReqIds)
  /\ [][/\ \A i \in 1..Len(reqs), r \in Responses :
             (MultiResponse(i, r) \/ SingleResponse(i, r)) =>
               \/ reqs' = RemoveAt(reqs, i)
               \/ /\ reqs[i].kind = "single"
                  /\ reqs[i].stage = "primary"
                  /\ reqs' = [reqs EXCEPT ![i].stage = "fallback"]
        /\ Len(reqs') > Len(reqs) =>
             \/ \E d \in DriverIds : RouteDriver(d)
             \/ \E k \in 1..Len(tasks) : MarkerClick(k)]_vars

\* a marker click whose primary and fallback requests both failed: the request
\* is over and its popup reports the failure
RoutingTerminatesWitness ==
  /\ reqs = <<>>
  /\ popup.owner # 0
  /\ popup.content = "Could not get route/ETA."

\* C25: once no request is in flight, if the request issued last (the one that
\* opened the popup still on the map) was answered with a route, the route on
\* the map is the one drawn for that request.
LatestRequestShown ==
  (/\ reqs = <<>>
   /\ popup.owner # 0
   /\ popup.content \in {"Total Route", "Route ready", "ETA", "No summary"})
  => (routeLayer # None /\ routeLayer[1].id = popup.owner)

\* C25, as the code has it: every answer that carries a route puts that
\* request's route on the map in place of whatever is there, whichever request
\* was issued last, and any other answer leaves the map's route alone; with
\* two requests in flight the route shown after both answers is that of the
\* answer that arrived last.
LastResponseShown ==
  [][\A i \in 1..Len(reqs), r \in Responses :
       (MultiResponse(i, r) \/ SingleResponse(i, r)) =>
         IF Returns(r) /\ Len(reqs') < Len(reqs)
         THEN routeLayer' = Some([id |-> reqs[i].id,
                                  kind |-> reqs[i].kind,
                                  target |-> reqs[i].target,
                                  coords |-> reqs[i].coords,
                                  geojson |-> normalizeToGeoJSON(r.body)[1].geojson])
         ELSE routeLayer' = routeLayer]_vars

\* two requests were in flight, the later one was answered with a route first
\* and the earlier one afterwards: the map shows the earlier request's route
\* under the later request's popup
LastResponseShownWitness ==
  /\ reqs = <<>>
  /\ popup.owner # 0
  /\ popup.content \in {"Total Route", "Route ready", "ETA", "No summary"}
  /\ routeLayer # None
  /\ routeLayer[1].id # popup.owner

\* C27: the map never holds more than one route layer, and the one it holds is
\* the referenced one; an answer with a route leaves exactly that request's
\* layer on the map, and Clear ETA leaves none.
OneRouteDisplayed ==
  [][/\ BagCardinality(mapLayers') <= 1
     /\ routeLayer' = None => BagCardinality(mapLayers') = 0
     /\ routeLayer' # None => BagIn(routeLayer'[1], mapLayers')
     /\ ClearEta => BagCardinality(mapLayers') = 0
     /\ \A i \in 1..Len(reqs), r \in Responses :
          (/\ MultiResponse(i, r) \/ SingleResponse(i, r)
           /\ Returns(r)
           /\ Len(reqs') < Len(reqs))
          => /\ BagCardinality(mapLayers') = 1
             /\ \E l \in BagToSet(mapLayers') :
                  /\ l.id = reqs[i].id
                  /\ l.coords = reqs[i].coords]_vars

\* a marker click and then 'build route' were in flight; the multi-stop route
\* was drawn first and the single leg, answered afterwards, took its place:
\* one layer, the single leg, under the popup of 'build route'
OneRouteDisplayedWitness ==
  /\ reqs = <<>>
  /\ routeLayer # None
  /\ routeLayer[1].kind = "single"
  /\ routeLayer[1].id # popup.owner
  /\ popup.content = "Total Route"
  /\ BagCardinality(mapLayers) = 1

\* C29: 'build route', a marker click and every answer to their requests
\* (route, failed primary, failed fallback, nothing to route) leave the
\* ledger, the catalog, the store and the relay calls as they are; a failure
\* changes nothing but the text of the popup its own request opened.
RoutingLeavesLedger ==
  [][/\ (\/ \E d \in DriverIds : RouteDriver(d)
         \/ \E k \in 1..Len(tasks) : MarkerClick(k)
         \/ \E i \in 1..Len(reqs), r \in Responses :
              MultiResponse(i, r) \/ SingleResponse(i, r))
        => UNCHANGED <<assign, tasks, sheet, pending, loadPc, drag, dpVars>>
     /\ \A i \in 1..Len(reqs), r \in Responses :
          (/\ MultiResponse(i, r) \/ SingleResponse(i, r)
           /\ ~Returns(r))
          => /\ routeLayer' = routeLayer
             /\ mapLayers' = mapLayers
             /\ popup'.owner = popup.owner
             /\ popup' # popup =>
                  /\ popup.owner = reqs[i].id
                  /\ popup'.content \in {"Could not build multi-stop route.",
                                         "Could not get route/ETA."}]_vars

\* the provider failed 'build route' for Rakesh: the popup says so and the
\* ledger is still the seeded one, with no relay call
RoutingLeavesLedgerWitness ==
  /\ reqs = <<>>
  /\ popup.content = "Could not build multi-stop route."
  /\ assign["rakesh"] # <<>>
  /\ assign = SeedAssign(tasks, EmptyAssign)
  /\ pending = EmptyBag

\* C26: an answer to a multi-stop request is drawn only if it still matches
\* the ledger: the route it puts on the map has the waypoints coordsForDriver
\* gives for that driver's sequence as it is when the answer arrives.
LateResponseValidated ==
  [][\A i \in 1..Len(reqs), r \in Responses :
       (MultiResponse(i, r) /\ routeLayer' # routeLayer) =>
         routeLayer'[1].coords
           = coordsForDriver(originRef, tasks, assign, reqs[i].target)]_vars

\* C28: a drop that moves a task out of its source (a driver's sequence where
\* it is at the dragged index, or the unassigned pool) into another driver's
\* sequence of length n at index k takes exactly that entry out of the source,
\* puts it at position min(k, n) of the destination with the other entries of
\* both in their order, and leaves every other driver's sequence as it was,
\* on both pages.
MoveBetween ==
  [][/\ \A dst \in Droppables, dIdx \in 0..MaxSeq :
          (/\ OnDragEnd(dst, dIdx)
           /\ startsWithDrv(dst)
           /\ drag[1].droppableId # dst
           /\ IF startsWithDrv(drag[1].droppableId)
              THEN /\ drag[1].index < Len(assign[DrvOf(drag[1].droppableId)])
                   /\ assign[DrvOf(drag[1].droppableId)][drag[1].index + 1]
                        = drag[1].draggableId
              ELSE drag[1].draggableId \notin assignedSet(assign))
          => LET id == drag[1].draggableId
                 src == drag[1].droppableId
                 sIdx == drag[1].index
                 to == DrvOf(dst)
                 n == Len(assign[to])
                 at == IF dIdx < n THEN dIdx ELSE n
             IN /\ assign'[to] = SubSeq(assign[to], 1, at) \o <<id>>
                                   \o SubSeq(assign[to], at + 1, n)
                /\ startsWithDrv(src) =>
                     assign'[DrvOf(src)]
                       = SubSeq(assign[DrvOf(src)], 1, sIdx)
                           \o SubSeq(assign[DrvOf(src)], sIdx + 2, Len(assign[DrvOf(src)]))
                /\ \A e \in DriverIds :
                     (e # to /\ src # drvKey(e)) => assign'[e] = assign[e]
     /\ \A src \in {"unassigned"} \cup DriverPageIds, sIdx \in 0..(NumTasks - 1),
           dst \in DriverPageIds, dIdx \in 0..MaxSeq :
          (DriversOnDragEnd(src, sIdx, dst, dIdx) /\ src # dst)
          => LET id == IF src = "unassigned" THEN unassigned[sIdx + 1].id
                       ELSE dpDrivers[src][sIdx + 1]
                 n == Len(dpDrivers[dst])
                 at == IF dIdx < n THEN dIdx ELSE n
             IN /\ dpDrivers'[dst] = SubSeq(dpDrivers[dst], 1, at) \o <<id>>
                                       \o SubSeq(dpDrivers[dst], at + 1, n)
                /\ src # "unassigned" =>
                     /\ dpDrivers'[src]
                          = SubSeq(dpDrivers[src], 1, sIdx)
                              \o SubSeq(dpDrivers[src], sIdx + 2, Len(dpDrivers[src]))
                     /\ unassigned' = unassigned
                /\ src = "unassigned" =>
                     unassigned' = SubSeq(unassigned, 1, sIdx)
                                     \o SubSeq(unassigned, sIdx + 2, Len(unassigned))
                /\ \A e \in DriverPageIds :
                     (e # dst /\ e # src) => dpDrivers'[e] = dpDrivers[e]]_vars

\* both tasks were seeded to Rakesh and task 2 was then dropped behind nothing
\* on Jagannath, at an index past the end of the empty sequence
MoveBetweenWitness ==
  /\ loadPc = "done"
  /\ SeedAssign(tasks, EmptyAssign)["rakesh"] = <<1, 2>>
  /\ assign["rakesh"] = <<1>>
  /\ assign["jagannath"] = <<2>>
  /\ drag = None
  /\ \E c \in BagToSet(pending) : c.id = 2 /\ c.assignedDriver = DriverName("jagannath")

LeaveCancels ==
  [][cancelled =>
       /\ tasks' = tasks
       /\ assign' = assign
       /\ routeLayer' = routeLayer
       /\ BagCardinality(mapLayers') = 0]_vars

\* the page was left while its load was pending; the load then returned the
\* sheet's rows and the answers to the requests in flight arrived: catalog and
\* ledger are empty and nothing is drawn
LeaveCancelsWitness ==
  /\ cancelled
  /\ loadPc = "done"
  /\ sheet # <<>>
  /\ tasks = <<>>
  /\ assign = EmptyAssign
  /\ reqs = <<>>
  /\ routeLayer = None

\* C32: every relay call a drop issues names a task that, right after the
\* drop, is held by the driver whose display name the call carries and by no
\* other (by no driver when the name is empty), and whose holder the drop
\* changed; a drop that changes no task's holder issues no call.
RelayMatchesLedger ==
  [][\A dst \in Droppables, dIdx \in 0..MaxSeq :
       OnDragEnd(dst, dIdx) =>
         LET holders(a, id) == {d \in DriverIds : \E i \in 1..Len(a[d]) : a[d][i] = id}
             issued == BagToSet(pending' (-) pending)
         IN /\ \A c \in issued :
                 /\ holders(assign', c.id)
                      = {d \in DriverIds : DriverName(d) = c.assignedDriver}
                 /\ holders(assign', c.id) # holders(assign, c.id)
            /\ (\A k \in 1..Len(tasks) :
                  holders(assign', tasks[k].id) = holders(assign, tasks[k].id))
               => issued = {}]_vars

\* C34: every entry of every driver's sequence is the id of a task of the
\* catalog, on both pages, in every reachable state.
LedgerIdsInCatalog ==
  /\ \A d \in DriverIds :
       \A i \in 1..Len(assign[d]) : HasTask(tasks, assign[d][i])
  /\ \A d \in DriverPageIds :
       \A i \in 1..Len(dpDrivers[d]) : HasTask(allTasks, dpDrivers[d][i])

\* C35: with the map mounted, its interaction handlers are disabled exactly
\* while a drag gesture is in progress: every onDragEnd, with or without a
\* destination and whatever the move case, enables them again.
InteractionsWhileDragging ==
  mapRef => (interactions <=> drag = None)

\* a gesture is over that dropped a task on a driver: the handlers are enabled
\* again, the ledger has changed and the relay call is out
InteractionsWhileDraggingWitness ==
  /\ mapRef
  /\ drag = None
  /\ interactions
  /\ assign # SeedAssign(tasks, EmptyAssign)
  /\ pending # EmptyBag

\* C33: a route drawn for a request issued after the last change of the ledger
\* (its waypoints are coordsForDriver of the ledger as it is) stays on the map
\* when a relay call of an earlier Clear settles.
RouteSurvivesSettle ==
  [][\A c \in BagToSet(pending), ok \in BOOLEAN :
       (/\ RelaySettle(c, ok)
        /\ routeLayer # None
        /\ routeLayer[1].kind = "multi"
        /\ routeLayer[1].coords
             = coordsForDriver(originRef, tasks, assign, routeLayer[1].target))
       => /\ routeLayer' = routeLayer
          /\ mapLayers' = mapLayers]_vars

\* C36: parseCoords returns null or a pair with |lat| <= 90 and |lng| <= 180.
\* With fewer than two tokens, or a first or second token that is no finite
\* number, it returns null; for finite a, b it swaps them when |a| > 90 and
\* |b| <= 90, then returns null if |a| > 90 or |b| > 180 and {lat: a, lng: b}
\* otherwise.
ParseCoordsRange ==
  parsed # None =>
    LET out == parsed[1]
        toks == SelectSeq(mapQuery, LAMBDA x : x \notin Separators)
        finite(t) == t \in {"12", "-91", "91", "181"}
        val(t) == CASE t = "12" -> 12 [] t = "-91" -> -91 [] t = "91" -> 91
                    [] t = "181" -> 181
        abs(x) == IF x < 0 THEN -x ELSE x
    IN /\ out # None => (abs(out[1].lat) <= 90 /\ abs(out[1].lng) <= 180)
       /\ IF Len(toks) < 2 \/ ~finite(toks[1]) \/ ~finite(toks[2])
          THEN out = None
          ELSE LET a0 == val(toks[1])
                   b0 == val(toks[2])
                   swap == abs(a0) > 90 /\ abs(b0) <= 90
                   a == IF swap THEN b0 ELSE a0
                   b == IF swap THEN a0 ELSE b0
               IN IF abs(a) > 90 \/ abs(b) > 180 THEN out = None
                  ELSE out = Some([lat |-> a, lng |-> b])

\* "91, 12" was parsed: longitude first, so the two were swapped
ParseCoordsRangeWitness ==
  /\ mapQuery = <<"91", ",", " ", "12">>
  /\ parsed = Some(Some([lat |-> 12, lng |-> 91]))
====
